---- MODULE Spec2Model ----
(***************************************************************************)
(* State-machine model of use-async-effekt-hooks.                          *)
(*                                                                         *)
(*   useAsyncEffekt  (src/src/useAsyncEffekt.ts, lines 294-369)            *)
(*       one hook instance; every dependency change is one "run".          *)
(*   useAsyncMemo    (src/unnamed/part_006)                                *)
(*       one hook instance; every dependency change is one "invocation".   *)
(*   useAsyncMemoSuspense (src/unnamed/part_005, lines 77-193)             *)
(*       the module-level cache; every call of the hook is one "lookup".   *)
(*                                                                         *)
(* A promise is modelled by its state ("pending", "fulfilled"/"resolved",  *)
(* "rejected"); every continuation the code registers with await / then /  *)
(* catch is one action that is enabled once the promise it hangs on has    *)
(* settled.  The host (React) is modelled by the actions Mount, DepsChange *)
(* and Unmount, which run the effect callbacks and the teardown callbacks  *)
(* synchronously, as a commit does.                                        *)
(***************************************************************************)
EXTENDS Integers, FiniteSets, Sequences, TLC

\* ------------------------------------------------------------------ bounds
MaxRuns == 3
MaxInvocations == 3
MaxFactoryCalls == 2

Runs == 1..MaxRuns
Invocations == 1..MaxInvocations

\* What the user-supplied effect does, as far as the hook can tell:
\*   "plain"       : it does its work without calling waitForPrevious()
\*   "wait"        : it awaits waitForPrevious() before doing anything else
\*   "waitAcquire" : it awaits waitForPrevious(), then acquires the exclusive
\*                   resource and resolves with a cleanup that releases it
EffectPlans == {"plain", "wait", "waitAcquire"}

\* Every effect awaits waitForPrevious().
Waits_Always(p) == TRUE

\* Whether the effect awaits waitForPrevious() before it does its work.
Waits(p) == p \in {"wait", "waitAcquire"}

\* How the promise returned by the effect settles.
\*   "reject"    : it rejects (or a non-async effect threw synchronously)
\*   "undefined" : it resolves with undefined
\*   "fn"        : it resolves with a cleanup function
\*   "obj"       : it resolves with a truthy value that is not callable
EffectResults == {"reject", "undefined", "fn", "obj"}

\* What the user-supplied cleanup does when it is called.
CleanupBehaviours == {"syncOk", "syncThrow", "async"}

\* ---- useAsyncMemoSuspense: the arguments of a call of the hook
\* Factory functions: f1 and f2 are two closures of the same source text,
\* as two renders of one component create them.
Factories == {"f1", "f2"}

\* Dependency values: the numbers 0, -0 and NaN.
DepValues == {"0", "-0", "NaN"}

DepLists == {<<v>> : v \in DepValues}

\* options?.scope: absent, or the string "s".
Scopes == {"undefined", "s"}

\* Entry objects are numbered by the factory call that created them.
Entries == 1..MaxFactoryCalls

NoEntry == 0

\* factory.toString(): the source text of the function.
FactoryText(f) == IF f \in {"f1", "f2"} THEN "f" ELSE f

\* JSON.stringify of a dependency value: -0 is written "0", NaN "null".
JsonValue(v) ==
    CASE v = "0"   -> "0"
      [] v = "-0"  -> "0"
      [] v = "NaN" -> "null"

\* Object.is on dependency values: 0 and -0 differ, NaN equals NaN.
ObjectIs(a, b) == a = b

sameDeps(a, b) ==
    /\ Len(a) = Len(b)
    /\ \A i \in 1..Len(a) : ObjectIs(a[i], b[i])

\* JSON.stringify([factory.toString(), deps, scope || ""])
getCacheKey(factory, deps, scope) ==
    <<FactoryText(factory),
      [i \in 1..Len(deps) |-> JsonValue(deps[i])],
      IF scope = "undefined" THEN "" ELSE scope>>

CacheKeys ==
    {getCacheKey(f, d, s) : f \in Factories, d \in DepLists, s \in Scopes}

\* Two components that call the hook with the same factory and scope.
Consumers == {1, 2}

\* What a component is doing, when it is not suspended on the promise of
\* an entry: it is about to render, or it has got a value or an error.
Ready == 0
Done == -1

NoLookup ==
    [factory |-> "none", deps |-> <<>>, scope |-> "undefined",
     outcome |-> "none", entry |-> NoEntry, invoked |-> FALSE]

VARIABLES
    \* ---- host
    phase,                \* "init" | "mounted" | "unmounted"   (useAsyncEffekt instance)
    nRuns,                \* number of runs started so far
    everyRunWaits,        \* every run started so far awaits waitForPrevious()
    \* ---- useAsyncEffekt refs
    isMountedRef,         \* isMountedRef.current
    lastEffectChainRef,   \* the run whose chain promise is in the ref; 0 = Promise.resolve()
    \* ---- per-run closure state of the useEffect callback
    plan,                 \* behaviour of the effect function of the run
    pc,                   \* "idle" | "awaitPrev" | "inflight" | "done" | "discarded"
    result,               \* how the effect's promise settled; "pending" before
    previousEffectChain,  \* the chain captured by the run (0 = initial resolved promise)
    cleanup,              \* "undefined" | "fn" | "obj"
    currentEffectPromise, \* "pending" | "fulfilled" | "rejected"
    cleanupPromise,       \* "pending" | "resolved"
    torn,                 \* the teardown callback of the run has been called by the host
    tdStage,              \* "waiting" | "cleaning" | "afterCleanup" | "finished"
    cleanupState,         \* "notInvoked" | "running" | "ok" | "failed"
    cleanupCalls,         \* how often the cleanup of the run was called
    effectErrorLogged,    \* console.error("useAsyncEffekt error:", ...) happened for the run
    cleanupErrorLogged,   \* console.error("useAsyncEffekt cleanup error:", ...) happened
    \* ---- useAsyncMemo instance
    memoPhase,            \* "init" | "mounted" | "unmounted"
    reactivated,          \* the host tore the mounted instance down and activated it again
    nInvocations,         \* number of factory invocations started so far
    memoIsMountedRef,     \* isMountedRef.current of the useAsyncMemo instance
    value,                \* the useState value; 0 = undefined, i = result of invocation i
    lastSuccessfulValueRef,
    factoryKind,          \* per invocation: what factory() returned: "promise" | "value"
    factoryState,         \* per invocation: "idle" | "pending" | "succeeded" | "failed"
    memoErrorLogged,      \* per invocation: console.error("useAsyncMemo error:", ...) happened
    \* ---- useAsyncMemoSuspense (module state shared by all callers)
    isClient,             \* typeof window !== "undefined"
    asyncMemoCache,       \* cache key -> the entry stored under it (0 = no entry)
    factoryCalls,         \* number of factory() calls made by lookups so far
    promise,              \* per entry: state of Promise.resolve(factory())
    entryStatus,          \* per entry: "none" | "pending" | "success" | "error"
    entryDeps,            \* per entry: the copy of deps stored on the entry
    entryKey,             \* per entry: the cache key its computation was started for
    lookup,               \* the last call of the hook: its arguments and what it did
    \* ---- two components that call useAsyncMemoSuspense
    consumer,             \* per component: Ready | the entry whose promise it threw
                          \* and the host waits for | Done
    consumerDeps          \* per component: the dependency list it passes

effektVars ==
    <<phase, nRuns, everyRunWaits, isMountedRef, lastEffectChainRef, plan, pc,
      result, previousEffectChain, cleanup, currentEffectPromise,
      cleanupPromise, torn, tdStage, cleanupState, cleanupCalls,
      effectErrorLogged, cleanupErrorLogged>>

memoVars ==
    <<memoPhase, reactivated, nInvocations, memoIsMountedRef, value,
      lastSuccessfulValueRef, factoryKind, factoryState, memoErrorLogged>>

suspVars ==
    <<isClient, asyncMemoCache, factoryCalls, promise, entryStatus, entryDeps,
      entryKey, lookup, consumer, consumerDeps>>

vars == <<effektVars, memoVars, suspVars>>

Undefined == 0

\* ------------------------------------------------------------------ Init
InitEffekt ==
    /\ phase = "init"
    /\ nRuns = 0
    /\ everyRunWaits = TRUE
    /\ isMountedRef = TRUE
    /\ lastEffectChainRef = 0
    /\ plan = [i \in Runs |-> "plain"]
    /\ pc = [i \in Runs |-> "idle"]
    /\ result = [i \in Runs |-> "pending"]
    /\ previousEffectChain = [i \in Runs |-> 0]
    /\ cleanup = [i \in Runs |-> "undefined"]
    /\ currentEffectPromise = [i \in Runs |-> "pending"]
    /\ cleanupPromise = [i \in Runs |-> "pending"]
    /\ torn = [i \in Runs |-> FALSE]
    /\ tdStage = [i \in Runs |-> "waiting"]
    /\ cleanupState = [i \in Runs |-> "notInvoked"]
    /\ cleanupCalls = [i \in Runs |-> 0]
    /\ effectErrorLogged = [i \in Runs |-> FALSE]
    /\ cleanupErrorLogged = [i \in Runs |-> FALSE]

InitMemo ==
    /\ memoPhase = "init"
    /\ reactivated = FALSE
    /\ nInvocations = 0
    /\ memoIsMountedRef = TRUE
    /\ value = Undefined
    /\ lastSuccessfulValueRef = Undefined
    /\ factoryKind = [i \in Invocations |-> "promise"]
    /\ factoryState = [i \in Invocations |-> "idle"]
    /\ memoErrorLogged = [i \in Invocations |-> FALSE]

InitSusp ==
    /\ asyncMemoCache = [k \in CacheKeys |-> NoEntry]
    /\ factoryCalls = 0
    /\ promise = [c \in Entries |-> "none"]
    /\ entryStatus = [c \in Entries |-> "none"]
    /\ entryDeps = [c \in Entries |-> <<>>]
    /\ entryKey = [c \in Entries |-> <<>>]
    /\ lookup = NoLookup

\* No component is suspended.
InitConsumers ==
    /\ consumer = [i \in Consumers |-> Ready]
    /\ consumerDeps = [i \in Consumers |-> <<"0">>]

Init == InitEffekt /\ InitMemo /\ InitSusp /\ InitConsumers /\ isClient = TRUE

\* =====================================================================
\*                            useAsyncEffekt
\* =====================================================================

\* executeEffect without its try/catch: a failing effect rejects the promise.
ExecuteEffectOutcome_NoCatch(failed) == IF failed THEN "rejected" ELSE "fulfilled"

\* executeEffect wraps the effect in try/catch, so the promise it returns
\* is fulfilled whether the effect succeeded or failed.
ExecuteEffectOutcome(failed) == "fulfilled"

\* The value `cleanup` holds after `cleanup = await effect(...)`.
CleanupValue(r) ==
    CASE r = "fn"  -> "fn"
      [] r = "obj" -> "obj"
      [] OTHER     -> "undefined"

\* A teardown that does not wait for currentEffectPromise.
TeardownReady_Immediate(i) == torn[i]

\* The teardown's first then-callback hangs on currentEffectPromise.
TeardownReady(i) == torn[i] /\ currentEffectPromise[i] # "pending"

\* A teardown that resolves the cleanup promise only after a successful
\* cleanup.
CleanupResolverCalled_OnSuccess(failed) == ~failed

\* The last then-callback of the teardown calls cleanupResolver() whatever
\* the cleanup did (failed says that the cleanup threw or rejected).
CleanupResolverCalled(failed) == TRUE

\* A chain that is only the effect promise, without the cleanup promise.
ChainOutcome_EffectOnly(i) ==
    CASE currentEffectPromise[i] = "rejected" -> "rejected"
      [] currentEffectPromise[i] = "fulfilled" -> "resolved"
      [] OTHER -> "pending"

\* lastEffectChainRef.current = currentEffectPromise.then(() => cleanupPromise):
\* the state of the chain promise of run i.
ChainOutcome(i) ==
    CASE currentEffectPromise[i] = "rejected" -> "rejected"
      [] currentEffectPromise[i] = "fulfilled" /\ cleanupPromise[i] = "resolved"
            -> "resolved"
      [] OTHER -> "pending"

\* A chain ref created with a promise that never settles.
ChainState_InitialPending(j) == IF j = 0 THEN "pending" ELSE ChainOutcome(j)

\* State of the promise waitForPrevious() returns when the captured chain
\* is that of run j; 0 is the Promise.resolve() the ref is created with.
ChainState(j) == IF j = 0 THEN "resolved" ELSE ChainOutcome(j)

\* A catch block that reports every failure of the effect.
ReportsEffectError_Always(mounted) == TRUE

\* The catch block of executeEffect: `if (isMountedRef.current)
\* console.error("useAsyncEffekt error:", error)`.
ReportsEffectError(mounted) == mounted

\* The record of run i after executeEffect has caught a failure of the
\* effect: console.error only when still mounted, no cleanup.
EffectFails(i) ==
    /\ pc' = [pc EXCEPT ![i] = "done"]
    /\ result' = [result EXCEPT ![i] = "reject"]
    /\ effectErrorLogged' =
          [effectErrorLogged EXCEPT ![i] = ReportsEffectError(isMountedRef)]
    /\ currentEffectPromise' =
          [currentEffectPromise EXCEPT ![i] = ExecuteEffectOutcome(TRUE)]

\* The body of the useEffect callback for run i with effect behaviour p;
\* throws says that the (non-async) effect throws synchronously.
StartRun(i, p, throws) ==
    /\ plan' = [plan EXCEPT ![i] = p]
    /\ everyRunWaits' = (everyRunWaits /\ Waits(p))
    /\ previousEffectChain' = [previousEffectChain EXCEPT ![i] = lastEffectChainRef]
    /\ lastEffectChainRef' = i
    /\ IF throws
       THEN EffectFails(i)
       ELSE /\ pc' = [pc EXCEPT ![i] = IF Waits(p) THEN "awaitPrev" ELSE "inflight"]
            /\ UNCHANGED <<result, effectErrorLogged, currentEffectPromise>>

\* The inputs of a run: the effect's behaviour, and whether it throws
\* synchronously (only an effect that awaits nothing can).
StartAnyRun(i) ==
    \E p \in EffectPlans : \E throws \in BOOLEAN :
        /\ throws => p = "plain"
        /\ StartRun(i, p, throws)

\* The teardown callback returned by the useEffect callback: it only
\* registers continuations on currentEffectPromise.
Teardown(i) == torn' = [torn EXCEPT ![i] = TRUE]

\* A run teardown that clears the mounted flag.
MountedAfterRunTeardown_Cleared == FALSE

\* What the teardown of a run does to isMountedRef.current: nothing.
MountedAfterRunTeardown == isMountedRef

Mount ==
    /\ phase = "init"
    /\ phase' = "mounted"
    /\ nRuns' = 1
    /\ StartAnyRun(1)
    /\ UNCHANGED <<isMountedRef, cleanup, cleanupPromise, torn, tdStage,
                   cleanupState, cleanupCalls, cleanupErrorLogged>>
    /\ UNCHANGED <<memoVars, suspVars>>

DepsChange ==
    /\ phase = "mounted"
    /\ nRuns < MaxRuns
    /\ nRuns' = nRuns + 1
    /\ Teardown(nRuns)
    /\ isMountedRef' = MountedAfterRunTeardown
    /\ StartAnyRun(nRuns + 1)
    /\ UNCHANGED <<phase, cleanup, cleanupPromise, tdStage,
                   cleanupState, cleanupCalls, cleanupErrorLogged>>
    /\ UNCHANGED <<memoVars, suspVars>>

Unmount ==
    /\ phase = "mounted"
    /\ phase' = "unmounted"
    /\ Teardown(nRuns)
    /\ isMountedRef' = FALSE
    /\ UNCHANGED <<nRuns, everyRunWaits, lastEffectChainRef, plan, pc, result,
                   previousEffectChain, cleanup, currentEffectPromise,
                   cleanupPromise, tdStage, cleanupState, cleanupCalls,
                   effectErrorLogged, cleanupErrorLogged>>
    /\ UNCHANGED <<memoVars, suspVars>>

\* The effect resumes after `await waitForPrevious()`; a rejected chain
\* would make the await throw inside the effect, which executeEffect
\* catches.
WaitForPreviousSettles(i) ==
    /\ pc[i] = "awaitPrev"
    /\ ChainState(previousEffectChain[i]) # "pending"
    /\ IF ChainState(previousEffectChain[i]) = "resolved"
       THEN /\ pc' = [pc EXCEPT ![i] = "inflight"]
            /\ UNCHANGED <<result, effectErrorLogged, currentEffectPromise>>
       ELSE EffectFails(i)
    /\ UNCHANGED <<phase, nRuns, everyRunWaits, isMountedRef,
                   lastEffectChainRef, plan, previousEffectChain, cleanup,
                   cleanupPromise, torn, tdStage, cleanupState,
                   cleanupCalls, cleanupErrorLogged>>
    /\ UNCHANGED <<memoVars, suspVars>>

\* The promise returned by the effect settles and executeEffect resumes
\* after `await effect(...)`: it stores the cleanup, or catches the
\* rejection and reports it when still mounted.
EffectSettles(i) ==
    /\ pc[i] = "inflight"
    /\ \E r \in EffectResults :
         /\ plan[i] = "waitAcquire" => r = "fn"
         /\ IF r = "reject"
            THEN /\ EffectFails(i)
                 /\ UNCHANGED cleanup
            ELSE /\ pc' = [pc EXCEPT ![i] = "done"]
                 /\ result' = [result EXCEPT ![i] = r]
                 /\ cleanup' = [cleanup EXCEPT ![i] = CleanupValue(r)]
                 /\ currentEffectPromise' =
                       [currentEffectPromise EXCEPT ![i] = ExecuteEffectOutcome(FALSE)]
                 /\ UNCHANGED effectErrorLogged
    /\ UNCHANGED <<phase, nRuns, everyRunWaits, isMountedRef,
                   lastEffectChainRef, plan, previousEffectChain,
                   cleanupPromise, torn, tdStage, cleanupState,
                   cleanupCalls, cleanupErrorLogged>>
    /\ UNCHANGED <<memoVars, suspVars>>

\* A catch block that reports a cleanup failure only while mounted.
ReportsCleanupError_Gated(mounted) == mounted

\* The catch block around `await cleanup()`:
\* console.error("useAsyncEffekt cleanup error:", error), whatever
\* isMountedRef.current is.
ReportsCleanupError(mounted) == TRUE

\* First then-callback of the teardown: `if (!cleanup) return;` and
\* `try { await cleanup() } catch { console.error(...) }`.  When
\* currentEffectPromise is rejected the callback is skipped and the
\* .catch() handler swallows the rejection.
TeardownCallsCleanup(i) ==
    /\ tdStage[i] = "waiting"
    /\ TeardownReady(i)
    /\ IF currentEffectPromise[i] = "rejected" \/ cleanup[i] = "undefined"
       THEN /\ tdStage' = [tdStage EXCEPT ![i] = "afterCleanup"]
            /\ UNCHANGED <<cleanupState, cleanupCalls, cleanupErrorLogged>>
       ELSE IF cleanup[i] = "obj"
       THEN \* calling a non-function throws a TypeError inside the try block
            /\ tdStage' = [tdStage EXCEPT ![i] = "afterCleanup"]
            /\ cleanupState' = [cleanupState EXCEPT ![i] = "failed"]
            /\ cleanupErrorLogged' =
                  [cleanupErrorLogged EXCEPT ![i] = ReportsCleanupError(isMountedRef)]
            /\ UNCHANGED cleanupCalls
       ELSE /\ cleanupCalls' = [cleanupCalls EXCEPT ![i] = @ + 1]
            /\ \E b \in CleanupBehaviours :
                 CASE b = "syncOk" ->
                        /\ cleanupState' = [cleanupState EXCEPT ![i] = "ok"]
                        /\ tdStage' = [tdStage EXCEPT ![i] = "afterCleanup"]
                        /\ UNCHANGED cleanupErrorLogged
                   [] b = "syncThrow" ->
                        /\ cleanupState' = [cleanupState EXCEPT ![i] = "failed"]
                        /\ tdStage' = [tdStage EXCEPT ![i] = "afterCleanup"]
                        /\ cleanupErrorLogged' =
                              [cleanupErrorLogged EXCEPT ![i] =
                                  ReportsCleanupError(isMountedRef)]
                   [] b = "async" ->
                        /\ cleanupState' = [cleanupState EXCEPT ![i] = "running"]
                        /\ tdStage' = [tdStage EXCEPT ![i] = "cleaning"]
                        /\ UNCHANGED cleanupErrorLogged
    /\ UNCHANGED <<phase, nRuns, everyRunWaits, isMountedRef,
                   lastEffectChainRef, plan, pc, result, previousEffectChain,
                   cleanup, currentEffectPromise, cleanupPromise, torn,
                   effectErrorLogged>>
    /\ UNCHANGED <<memoVars, suspVars>>

\* The promise returned by an async cleanup settles and the callback
\* resumes after `await cleanup()`.
CleanupSettles(i) ==
    /\ tdStage[i] = "cleaning"
    /\ tdStage' = [tdStage EXCEPT ![i] = "afterCleanup"]
    /\ \E rejects \in BOOLEAN :
         IF rejects
         THEN /\ cleanupState' = [cleanupState EXCEPT ![i] = "failed"]
              /\ cleanupErrorLogged' =
                    [cleanupErrorLogged EXCEPT ![i] = ReportsCleanupError(isMountedRef)]
         ELSE /\ cleanupState' = [cleanupState EXCEPT ![i] = "ok"]
              /\ UNCHANGED cleanupErrorLogged
    /\ UNCHANGED <<phase, nRuns, everyRunWaits, isMountedRef,
                   lastEffectChainRef, plan, pc, result, previousEffectChain,
                   cleanup, currentEffectPromise, cleanupPromise, torn,
                   cleanupCalls, effectErrorLogged>>
    /\ UNCHANGED <<memoVars, suspVars>>

\* Last then-callback of the teardown: cleanupResolver().  Nothing refers
\* to the closure of the run afterwards, only to its chain promise, so the
\* record of the run is dropped.
ResolveCleanupPromise(i) ==
    /\ tdStage[i] = "afterCleanup"
    /\ tdStage' = [tdStage EXCEPT ![i] = "finished"]
    /\ cleanupPromise' = [cleanupPromise EXCEPT ![i] =
          IF CleanupResolverCalled(cleanupState[i] = "failed")
          THEN "resolved" ELSE @]
    /\ pc' = [pc EXCEPT ![i] = "discarded"]
    /\ plan' = [plan EXCEPT ![i] = "plain"]
    /\ result' = [result EXCEPT ![i] = "pending"]
    /\ previousEffectChain' = [previousEffectChain EXCEPT ![i] = 0]
    /\ cleanup' = [cleanup EXCEPT ![i] = "undefined"]
    /\ cleanupState' = [cleanupState EXCEPT ![i] = "notInvoked"]
    /\ cleanupCalls' = [cleanupCalls EXCEPT ![i] = 0]
    /\ effectErrorLogged' = [effectErrorLogged EXCEPT ![i] = FALSE]
    /\ cleanupErrorLogged' = [cleanupErrorLogged EXCEPT ![i] = FALSE]
    /\ UNCHANGED <<phase, nRuns, everyRunWaits, isMountedRef,
                   lastEffectChainRef, currentEffectPromise, torn>>
    /\ UNCHANGED <<memoVars, suspVars>>

Next ==
    \/ Mount
    \/ DepsChange
    \/ Unmount
    \/ \E i \in Runs : WaitForPreviousSettles(i)
    \/ \E i \in Runs : EffectSettles(i)
    \/ \E i \in Runs : TeardownCallsCleanup(i)
    \/ \E i \in Runs : CleanupSettles(i)
    \/ \E i \in Runs : ResolveCleanupPromise(i)

Spec == Init /\ [][Next]_vars

\* =====================================================================
\*                             useAsyncMemo
\* =====================================================================

\* What factory() does when executeFactory calls it: it returns a promise,
\* returns a plain value, or throws.
FactoryKinds == {"promise", "value", "throw"}

\* An executeFactory that applies every result without a guard.
MemoApplies_Unguarded(i) == TRUE

\* The guard of both branches of executeFactory: `if (isMountedRef.current)`.
\* i is the invocation that settled.
MemoApplies(i) == memoIsMountedRef

\* The try branch after `await factory(...)`: setValue(result) and
\* lastSuccessfulValueRef.current = result.  The result of invocation i is
\* written i.
FactorySucceeds(i) ==
    /\ factoryState' = [factoryState EXCEPT ![i] = "succeeded"]
    /\ IF MemoApplies(i)
       THEN /\ value' = i
            /\ lastSuccessfulValueRef' = i
       ELSE UNCHANGED <<value, lastSuccessfulValueRef>>
    /\ UNCHANGED memoErrorLogged

\* The catch branch: console.error and setValue(lastSuccessfulValueRef.current).
FactoryFails(i) ==
    /\ factoryState' = [factoryState EXCEPT ![i] = "failed"]
    /\ IF MemoApplies(i)
       THEN /\ memoErrorLogged' = [memoErrorLogged EXCEPT ![i] = TRUE]
            /\ value' = lastSuccessfulValueRef
       ELSE UNCHANGED <<memoErrorLogged, value>>
    /\ UNCHANGED lastSuccessfulValueRef

\* An effect callback that clears the state before it recomputes.
ValueAtStart_Reset(v) == Undefined

\* The displayed value after the effect callback has called
\* executeFactory(): nothing calls setValue before the await.
ValueAtStart(v) == v

\* The body of the useEffect callback: executeFactory() runs up to its
\* await; a factory that throws lands in the catch branch at once.
StartFactory(i, kind) ==
    /\ nInvocations' = i
    /\ IF kind = "throw"
       THEN /\ FactoryFails(i)
            /\ UNCHANGED factoryKind
       ELSE /\ factoryKind' = [factoryKind EXCEPT ![i] = kind]
            /\ factoryState' = [factoryState EXCEPT ![i] = "pending"]
            /\ value' = ValueAtStart(value)
            /\ UNCHANGED <<memoErrorLogged, lastSuccessfulValueRef>>

MemoMount ==
    /\ memoPhase = "init"
    /\ memoPhase' = "mounted"
    /\ \E kind \in FactoryKinds : StartFactory(1, kind)
    /\ UNCHANGED <<memoIsMountedRef, reactivated>>
    /\ UNCHANGED <<effektVars, suspVars>>

MemoDepsChange ==
    /\ memoPhase = "mounted"
    /\ nInvocations < MaxInvocations
    /\ \E kind \in FactoryKinds : StartFactory(nInvocations + 1, kind)
    /\ UNCHANGED <<memoPhase, memoIsMountedRef, reactivated>>
    /\ UNCHANGED <<effektVars, suspVars>>

MemoUnmount ==
    /\ memoPhase = "mounted"
    /\ memoPhase' = "unmounted"
    /\ memoIsMountedRef' = FALSE
    /\ UNCHANGED <<reactivated, nInvocations, value, lastSuccessfulValueRef,
                   factoryKind, factoryState, memoErrorLogged>>
    /\ UNCHANGED <<effektVars, suspVars>>

\* Mount under React.StrictMode (React 18 and later, development build):
\* in the commit that mounts the instance the host runs the effect
\* callbacks, then every teardown callback, then the effect callbacks
\* again, on the same refs and state.  The first executeFactory() runs with
\* isMountedRef.current true; the teardown of the second effect sets it to
\* false; no effect callback sets it back, so the second executeFactory()
\* runs with it false (a factory that throws then reports nothing).
MemoMountStrictMode ==
    /\ memoPhase = "init"
    /\ 2 <= MaxInvocations
    /\ memoPhase' = "mounted"
    /\ reactivated' = TRUE
    /\ nInvocations' = 2
    /\ memoIsMountedRef' = FALSE
    /\ \E kind1, kind2 \in FactoryKinds :
         /\ factoryKind' = [factoryKind EXCEPT
                ![1] = IF kind1 = "throw" THEN @ ELSE kind1,
                ![2] = IF kind2 = "throw" THEN @ ELSE kind2]
         /\ factoryState' = [factoryState EXCEPT
                ![1] = IF kind1 = "throw" THEN "failed" ELSE "pending",
                ![2] = IF kind2 = "throw" THEN "failed" ELSE "pending"]
         /\ memoErrorLogged' = [memoErrorLogged EXCEPT
                ![1] = (kind1 = "throw" /\ MemoApplies(1))]
         /\ value' = IF kind1 = "throw" /\ MemoApplies(1)
                     THEN lastSuccessfulValueRef ELSE ValueAtStart(value)
    /\ UNCHANGED lastSuccessfulValueRef
    /\ UNCHANGED <<effektVars, suspVars>>

\* The awaited factory result settles and executeFactory resumes.
FactorySettles(i) ==
    /\ factoryState[i] = "pending"
    /\ UNCHANGED <<memoPhase, reactivated, nInvocations, memoIsMountedRef,
                   factoryKind>>
    /\ \E ok \in BOOLEAN :
         /\ factoryKind[i] = "value" => ok
         /\ IF ok THEN FactorySucceeds(i) ELSE FactoryFails(i)
    /\ UNCHANGED <<effektVars, suspVars>>

MemoNext ==
    \/ MemoMount
    \/ MemoMountStrictMode
    \/ MemoDepsChange
    \/ MemoUnmount
    \/ \E i \in Invocations : FactorySettles(i)

MemoSpec == Init /\ [][MemoNext]_vars


\* =====================================================================
\*                         useAsyncMemoSuspense
\* =====================================================================

\* The hook runs in the browser or in a server render.
SuspInit ==
    InitEffekt /\ InitMemo /\ InitSusp /\ InitConsumers /\ isClient \in BOOLEAN

\* `if (!cacheEntry || !sameDeps(cacheEntry.deps, deps))`; c is the entry
\* found under the key, NoEntry when there is none.
NeedsComputation(c, deps) == c = NoEntry \/ ~sameDeps(entryDeps[c], deps)

\* A hook that throws the entry's promise whatever the status is.
LookupOutcome_AlwaysSuspends(status) == "threwPromise"

\* What the last three lines of the hook do with the entry's status.
LookupOutcome(status) ==
    CASE status = "success" -> "returned"
      [] status = "error"   -> "threwError"
      [] OTHER              -> "threwPromise"

\* The count of factory() calls after one more call; it stays at the bound.
Counted(k) == IF k < MaxFactoryCalls THEN k + 1 ELSE MaxFactoryCalls

\* One call useAsyncMemoSuspense(factory, deps, {scope}); kind is what
\* factory() does if the hook calls it, n names the newCacheEntry object
\* the call creates if it starts a computation.
Lookup(factory, deps, scope, kind, n) ==
    LET key == getCacheKey(factory, deps, scope)
        c   == asyncMemoCache[key]
    IN  IF ~isClient
        THEN /\ lookup' = [factory |-> factory, deps |-> deps, scope |-> scope,
                           outcome |-> "undefined", entry |-> NoEntry,
                           invoked |-> FALSE]
             /\ UNCHANGED <<asyncMemoCache, factoryCalls, promise,
                            entryStatus, entryDeps, entryKey>>
        ELSE IF NeedsComputation(c, deps)
        THEN /\ n \in Entries
             /\ factoryCalls' = Counted(factoryCalls)
             /\ IF kind = "throw"
                THEN \* factory() throws out of the hook before anything is stored
                     /\ lookup' = [factory |-> factory, deps |-> deps,
                                   scope |-> scope, outcome |-> "threwError",
                                   entry |-> NoEntry, invoked |-> TRUE]
                     /\ UNCHANGED <<asyncMemoCache, promise, entryStatus,
                                    entryDeps, entryKey>>
                ELSE \* the replaced entry object, once its continuation has
                     \* run, is referred to by nothing and is dropped
                     LET terminal == c # NoEntry /\ entryStatus[c] # "pending"
                     IN
                     /\ asyncMemoCache' = [asyncMemoCache EXCEPT ![key] = n]
                     /\ promise' =
                          [e \in Entries |->
                             IF e = n THEN (IF kind = "value" THEN "fulfilled" ELSE "pending")
                             ELSE IF terminal /\ e = c THEN "none"
                             ELSE promise[e]]
                     /\ entryStatus' =
                          [e \in Entries |->
                             IF e = n THEN "pending"
                             ELSE IF terminal /\ e = c THEN "none"
                             ELSE entryStatus[e]]
                     /\ entryDeps' =
                          [e \in Entries |->
                             IF e = n THEN deps
                             ELSE IF terminal /\ e = c THEN <<>>
                             ELSE entryDeps[e]]
                     /\ entryKey' =
                          [e \in Entries |->
                             IF e = n THEN key
                             ELSE IF terminal /\ e = c THEN <<>>
                             ELSE entryKey[e]]
                     /\ lookup' = [factory |-> factory, deps |-> deps,
                                   scope |-> scope,
                                   outcome |-> LookupOutcome("pending"),
                                   entry |-> n, invoked |-> TRUE]
        ELSE /\ lookup' = [factory |-> factory, deps |-> deps, scope |-> scope,
                           outcome |-> LookupOutcome(entryStatus[c]),
                           entry |-> c, invoked |-> FALSE]
             /\ UNCHANGED <<asyncMemoCache, factoryCalls, promise,
                            entryStatus, entryDeps, entryKey>>

\* The entry objects are named in the order of the factory calls.
NextEntry == IF factoryCalls < MaxFactoryCalls THEN factoryCalls + 1 ELSE NoEntry

\* A call of the hook by any component, with any arguments.
UseAsyncMemoSuspense ==
    /\ \E factory \in Factories : \E deps \in DepLists : \E scope \in Scopes :
         \E kind \in FactoryKinds : Lookup(factory, deps, scope, kind, NextEntry)
    /\ UNCHANGED <<isClient, consumer, consumerDeps>>
    /\ UNCHANGED <<effektVars, memoVars>>

\* The promise a factory returned settles.
PromiseSettles(c) ==
    /\ promise[c] = "pending"
    /\ \E ok \in BOOLEAN :
         promise' = [promise EXCEPT ![c] = IF ok THEN "fulfilled" ELSE "rejected"]
    /\ UNCHANGED <<isClient, asyncMemoCache, factoryCalls, entryStatus,
                   entryDeps, entryKey, lookup, consumer, consumerDeps>>
    /\ UNCHANGED <<effektVars, memoVars>>

\* A store from which every entry has been evicted.
InCache_Never(c) == FALSE

\* Whether entry c is the one stored under some cache key.
InCache(c) == \E k \in CacheKeys : asyncMemoCache[k] = c

\* The components after a step: the promise a suspended component threw
\* has settled and the entry object it belongs to is referred to by
\* nothing any more, so the host's listener on that promise is all that
\* is left of it: the component is ready to render again.
Woken ==
    [j \in Consumers |->
       IF consumer[j] \in Entries /\ entryStatus'[consumer[j]] = "none"
       THEN Ready ELSE consumer[j]]

\* A continuation that looks the entry up again under its key.
AssignedEntry_Stored(c) == asyncMemoCache[entryKey[c]]

\* The object the continuation of computation c assigns to: the
\* newCacheEntry of the call that started it, which the closure holds.
AssignedEntry(c) == c

\* The continuation registered on the entry's promise runs:
\* .then(result => Object.assign(entry, {status: "success", result}))
\* .catch(error => Object.assign(entry, {status: "error", error})).
EntryUpdate(c) ==
    LET t       == AssignedEntry(c)
        settled == IF promise[c] = "fulfilled" THEN "success" ELSE "error"
    IN
    /\ entryStatus[c] = "pending"
    /\ promise[c] \in {"fulfilled", "rejected"}
    /\ IF InCache(c)
       THEN /\ entryStatus' = [entryStatus EXCEPT ![t] = settled]
            /\ UNCHANGED <<promise, entryDeps, entryKey>>
       ELSE \* nothing refers to the entry object any more
            /\ entryStatus' = [e \in Entries |->
                                 IF e = c THEN "none"
                                 ELSE IF e = t THEN settled
                                 ELSE entryStatus[e]]
            /\ promise' = [promise EXCEPT ![c] = "none"]
            /\ entryDeps' = [entryDeps EXCEPT ![c] = <<>>]
            /\ entryKey' = [entryKey EXCEPT ![c] = <<>>]
    /\ consumer' = Woken
    /\ UNCHANGED <<isClient, asyncMemoCache, factoryCalls, lookup, consumerDeps>>
    /\ UNCHANGED <<effektVars, memoVars>>

SuspNext ==
    \/ UseAsyncMemoSuspense
    \/ \E c \in Entries : PromiseSettles(c)
    \/ \E c \in Entries : EntryUpdate(c)

SuspSpec == SuspInit /\ [][SuspNext]_vars

\* ---------------------------------------------------------------------
\* Two components under Suspense boundaries call the hook with the same
\* factory text and scope, each with its own dependency list; the host
\* renders a component again once the promise it threw has settled.

\* The two dependency lists differ under the same-value comparison.
RetryInit ==
    /\ InitEffekt /\ InitMemo /\ InitSusp
    /\ isClient = TRUE
    /\ consumer = [i \in Consumers |-> Ready]
    /\ consumerDeps \in {d \in [Consumers -> DepLists] : ~sameDeps(d[1], d[2])}

\* The factory closure component i passes: same source text for both.
ConsumerFactory(i) == IF i = 1 THEN "f1" ELSE "f2"

\* The statuses an entry has once its computation has a result.
Terminal(status) == status \in {"success", "error"}

\* An entry object that nothing refers to; NoEntry when there is none.
FreeEntry ==
    LET free == {e \in Entries : entryStatus[e] = "none"}
    IN  IF free = {} THEN NoEntry
        ELSE CHOOSE e \in free : \A h \in free : e <= h

\* The host may render component i: it has not rendered yet, or the promise
\* it threw has settled and the continuation of the hook has run.
MayRender(i) ==
    \/ consumer[i] = Ready
    \/ consumer[i] \in Entries /\ Terminal(entryStatus[consumer[i]])

\* The host renders component i, which calls the hook: it returns a value
\* or throws an error, and the component has its result, or it throws the
\* promise of an entry and the host waits for that promise.
ConsumerRenders(i) ==
    /\ MayRender(i)
    /\ \E kind \in FactoryKinds :
         Lookup(ConsumerFactory(i), consumerDeps[i], "s", kind, FreeEntry)
    /\ consumer' =
          [j \in Consumers |->
             IF j # i THEN Woken[j]
             ELSE IF lookup'.outcome = "threwPromise" THEN lookup'.entry
             ELSE Done]
    /\ UNCHANGED <<isClient, consumerDeps>>
    /\ UNCHANGED <<effektVars, memoVars>>

RetryNext ==
    \/ \E i \in Consumers : ConsumerRenders(i)
    \/ \E c \in Entries : PromiseSettles(c)
    \/ \E c \in Entries : EntryUpdate(c)

RetrySpec == RetryInit /\ [][RetryNext]_vars

\* Every promise a factory returned settles, the job queue runs every
\* continuation, and the host renders a component again and again for as
\* long as it may.
RetryFairSpec ==
    /\ RetrySpec
    /\ \A c \in Entries : WF_vars(PromiseSettles(c)) /\ WF_vars(EntryUpdate(c))
    /\ \A i \in Consumers : SF_vars(ConsumerRenders(i))

\* The continuations the JavaScript job queue runs once the promise they
\* hang on has settled, and every async cleanup that was called settles.
\* Nothing makes the host act or a user effect settle.
FairSpec ==
    /\ Spec
    /\ \A i \in Runs :
         /\ WF_vars(WaitForPreviousSettles(i))
         /\ WF_vars(TeardownCallsCleanup(i))
         /\ WF_vars(CleanupSettles(i))
         /\ WF_vars(ResolveCleanupPromise(i))

\* =====================================================================
\*                     Properties of useAsyncEffekt
\* =====================================================================

Started(i) == pc[i] # "idle"

\* The effect of run i has settled and executeEffect has finished.
ActionSettled(i) == pc[i] \in {"done", "discarded"}

\* The teardown of run i is past its cleanup step: the cleanup, if there
\* was one, has been called and has settled.
CleanupSettled(i) == tdStage[i] \in {"afterCleanup", "finished"}

\* Run i is past its `await waitForPrevious()`.
PastWait(i) == Waits(plan[i]) /\ pc[i] \in {"inflight", "done"}

\* Run i holds the exclusive resource: it acquired it after its wait and
\* its cleanup has not released it.
Holds(i) ==
    /\ plan[i] = "waitAcquire"
    /\ pc[i] \in {"inflight", "done"}
    /\ cleanupState[i] # "ok"

\* C1: for every run k >= 2 the promise run k gets from waitForPrevious()
\* is the chain of run k-1 (never its own), and it is resolved only when
\* the action of run k-1 has settled and its cleanup step has settled; a
\* run past its await has seen exactly that.
C1_ChainOrdering ==
    \A k \in Runs : (k >= 2 /\ Started(k)) =>
        /\ pc[k] # "discarded" => previousEffectChain[k] = k - 1
        /\ ChainState(k - 1) = "resolved" =>
              (ActionSettled(k - 1) /\ CleanupSettled(k - 1))
        /\ PastWait(k) => ChainState(k - 1) = "resolved"

C1_Witness ==
    \E k \in Runs :
        /\ k >= 2
        /\ plan[k] = "wait"
        /\ pc[k] = "inflight"
        /\ ChainState(k - 1) = "resolved"

\* C2: when the promise run k gets from waitForPrevious() is resolved,
\* every earlier run j < k has settled its action and its cleanup step.
C2_WaitsForAllPrevious ==
    \A k \in Runs : PastWait(k) =>
        \A j \in 1..(k - 1) : ActionSettled(j) /\ CleanupSettled(j)

\* C3: when every run awaits waitForPrevious() before acquiring and every
\* cleanup releases, at most one run holds the resource.
C3_MutualExclusion ==
    (everyRunWaits /\ \A i \in Runs : cleanupState[i] # "failed") =>
        Cardinality({i \in Runs : Holds(i)}) <= 1

C3_Witness ==
    /\ everyRunWaits
    /\ \E k \in Runs :
         /\ k >= 2
         /\ Holds(k - 1)
         /\ torn[k - 1]
         /\ plan[k] = "waitAcquire"
         /\ pc[k] = "awaitPrev"

\* C4: the cleanup of a run is called, and the teardown step that decides
\* whether to call it runs, only when the action of the run has settled.
C4_CleanupAfterAction ==
    \A i \in Runs :
        (cleanupCalls[i] > 0 \/ tdStage[i] # "waiting") => ActionSettled(i)

C4_Witness ==
    \E i \in Runs : cleanupCalls[i] = 1 /\ pc[i] = "done" /\ torn[i]

\* C5: a cleanup is called only after the teardown of its run was
\* signalled and never more than once, and a run that resolved with a
\* cleanup function and was torn down gets its cleanup called.
C5_CleanupOnTeardown ==
    /\ [](\A i \in Runs : cleanupCalls[i] <= 1 /\ (cleanupCalls[i] > 0 => torn[i]))
    /\ \A i \in Runs : (cleanup[i] = "fn" /\ torn[i]) ~> (cleanupCalls[i] = 1)

C5_Witness ==
    \E i \in Runs :
        /\ phase = "unmounted"
        /\ i = nRuns
        /\ cleanupCalls[i] = 1

\* C6: no chain promise is ever rejected, whatever the effect or the
\* cleanup of the run did.
C6_NeverRejected ==
    \A j \in Runs : ChainState(j) # "rejected"

C6_Witness ==
    \E i, j \in Runs :
        /\ result[i] = "reject"
        /\ pc[i] = "done"
        /\ torn[i]
        /\ cleanupState[j] = "failed"

\* C7: once the action of a run has settled and the run was torn down, its
\* chain promise eventually resolves, also when the cleanup fails.
C7_ForwardProgress ==
    \A i \in Runs : (pc[i] = "done" /\ torn[i]) ~> (ChainState(i) = "resolved")

C7_Witness ==
    \E i, k \in Runs :
        /\ cleanupState[i] = "failed"
        /\ tdStage[i] = "afterCleanup"
        /\ previousEffectChain[k] = i
        /\ pc[k] = "awaitPrev"

CatchesEffectFailure(i) == result[i] # "reject" /\ result'[i] = "reject"

\* C17: when the effect of a run throws or rejects, the error is logged
\* exactly if isMounted() is true when it is caught; the rejection does not
\* leave executeEffect, the run has no cleanup and nothing is called at its
\* teardown, and the effect is not started again.
C17_EffectFailureReporting ==
    /\ [][\A i \in Runs :
            /\ CatchesEffectFailure(i) =>
                  (effectErrorLogged'[i] <=> isMountedRef)
            /\ ~CatchesEffectFailure(i) =>
                  (effectErrorLogged'[i] => effectErrorLogged[i])
            /\ result[i] = "reject" => pc'[i] \in {"done", "discarded"}]_vars
    /\ [](\A i \in Runs :
            result[i] = "reject" =>
               /\ currentEffectPromise[i] = "fulfilled"
               /\ cleanup[i] = "undefined"
               /\ cleanupCalls[i] = 0
               /\ cleanupState[i] = "notInvoked")

C17_Witness ==
    \E i, j \in Runs :
        /\ result[i] = "reject"
        /\ effectErrorLogged[i]
        /\ tdStage[i] = "afterCleanup"
        /\ result[j] = "reject"
        /\ ~effectErrorLogged[j]
        /\ phase = "unmounted"

\* The step is the one in which the teardown of run i catches what the
\* call of its cleanup threw, or the rejection of the promise it returned.
CatchesCleanupFailure(i) == cleanupState[i] # "failed" /\ cleanupState'[i] = "failed"

\* C18 as stated: a cleanup failure is logged exactly if isMounted() is
\* true when it is caught.
C18_CleanupReportGated ==
    [][\A i \in Runs :
          CatchesCleanupFailure(i) => (cleanupErrorLogged'[i] <=> isMountedRef)]_vars

\* C18 as amended: a cleanup failure is logged when it is caught, whether
\* isMounted() is true or false then, and nothing else logs a cleanup
\* error.
C18_CleanupReportUngated ==
    [][\A i \in Runs :
          /\ CatchesCleanupFailure(i) => cleanupErrorLogged'[i]
          /\ ~CatchesCleanupFailure(i) =>
                (cleanupErrorLogged'[i] => cleanupErrorLogged[i])]_vars

C18_Witness ==
    \E i \in Runs :
        /\ i = nRuns
        /\ ~isMountedRef
        /\ cleanupCalls[i] = 1
        /\ cleanupState[i] = "failed"
        /\ cleanupErrorLogged[i]

\* The teardown of run i was called by the unmount of the instance.
TornByUnmount(i) == phase = "unmounted" /\ i = nRuns

\* C19: when the cleanup function of a run is called because the instance
\* was unmounted and it throws or its promise rejects, it has been called
\* exactly once and the error is logged; no cleanup is called twice.
C19_UnmountCleanupFailure ==
    /\ [][\A i \in Runs :
            (TornByUnmount(i) /\ cleanup[i] = "fn" /\ CatchesCleanupFailure(i))
               => (cleanupCalls'[i] = 1 /\ cleanupErrorLogged'[i])]_vars
    /\ [](\A i \in Runs : cleanupCalls[i] <= 1)

C19_Witness ==
    \E i \in Runs :
        /\ TornByUnmount(i)
        /\ nRuns >= 2
        /\ cleanup[i] = "fn"
        /\ tdStage[i] = "afterCleanup"
        /\ cleanupState[i] = "failed"
        /\ cleanupCalls[i] = 1
        /\ cleanupErrorLogged[i]

\* =====================================================================
\*                      Properties of useAsyncMemo
\* =====================================================================

\* C9: once a later invocation has been started, the result of an earlier
\* invocation never becomes the displayed value nor the retained
\* last-successful value.
C9_StaleResultDiscarded ==
    [][\A i \in Invocations :
          i < nInvocations =>
             /\ value' = i => value = i
             /\ lastSuccessfulValueRef' = i => lastSuccessfulValueRef = i]_vars

\* The value of the last invocation before k that has succeeded;
\* undefined when there is none.
LastSucceededBefore(k) ==
    LET succeeded == {j \in 1..(k - 1) : factoryState[j] = "succeeded"}
    IN  IF succeeded = {} THEN Undefined
        ELSE CHOOSE j \in succeeded : \A h \in succeeded : h <= j

\* C10: when invocation k fails as the most recently started invocation
\* of a live instance, the displayed value afterwards is the value of the
\* last invocation before k that succeeded, undefined when none did.
C10_LastGoodValueRetained ==
    [][\A k \in Invocations :
          (/\ factoryState[k] # "failed"
           /\ factoryState'[k] = "failed"
           /\ k = nInvocations'
           /\ memoIsMountedRef)
          => value' = LastSucceededBefore(k)]_vars

\* C11: a factory result that settles while isMounted() is false changes
\* neither the displayed value nor the retained last-successful value, and
\* a failure that settles then is not reported with console.error.
C11_LateResultDropped ==
    [][~memoIsMountedRef =>
          UNCHANGED <<value, lastSuccessfulValueRef, memoErrorLogged>>]_vars

C11_Witness ==
    /\ memoPhase = "unmounted"
    /\ ~reactivated
    /\ ~memoIsMountedRef
    /\ nInvocations >= 2
    /\ factoryState[1] = "succeeded"
    /\ factoryState[2] = "failed"
    /\ value = Undefined
    /\ lastSuccessfulValueRef = Undefined
    /\ ~memoErrorLogged[2]

\* The step is an activation that starts a factory invocation.
StartsInvocation == nInvocations' # nInvocations

\* The step is one in which the awaited result of some invocation settles.
SomeInvocationSettles ==
    \E i \in Invocations : factoryState[i] = "pending" /\ factoryState'[i] # "pending"

C20_ReactivationResolves ==
    (/\ reactivated
     /\ memoPhase = "mounted"
     /\ nInvocations = 2
     /\ factoryState[2] = "succeeded")
       => value \in {1, 2}

\* =====================================================================
\*                  Properties of useAsyncMemoSuspense
\* =====================================================================

\* The step is a call of the hook that called factory().
FactoryInvoked == factoryCalls' # factoryCalls

\* The call of the hook made in this step has the same factory, the same
\* scope and a same-value equal dependency list as the call before it.
RepeatsLookup ==
    /\ lookup.outcome # "none"
    /\ lookup'.factory = lookup.factory
    /\ lookup'.scope = lookup.scope
    /\ sameDeps(lookup'.deps, lookup.deps)

\* C12: a call of the hook that repeats the factory, dependency list and
\* scope of the call before it never calls the factory again, whether the
\* first call's factory returned a promise, returned a value or threw.
C12_CacheIdempotence ==
    [][RepeatsLookup => ~FactoryInvoked]_vars

\* C13: a call of the hook is served only from an entry whose stored
\* dependency list is same-value equal to its own, and no call of the hook
\* overwrites the entry another call stored: a cache slot that holds an
\* entry keeps it.
C13_Partitioning ==
    /\ [](\A c \in Entries :
            (lookup.entry = c /\ entryStatus[c] # "none")
               => sameDeps(entryDeps[c], lookup.deps))
    /\ [][\A k \in CacheKeys :
            asyncMemoCache[k] # NoEntry
               => asyncMemoCache'[k] = asyncMemoCache[k]]_vars

\* The computation of entry c was started and has not settled.
Unsettled(c) == promise[c] = "pending"

\* C14: for every cache key at most one computation that was started for
\* the key is unsettled.
C14_SingleFlight ==
    \A k \in CacheKeys :
        Cardinality({c \in Entries : Unsettled(c) /\ entryKey[c] = k}) <= 1

\* C15: an entry in a terminal status never changes again (it can only be
\* dropped once nothing refers to it), a pending entry only becomes
\* success or error, and the entry stored under a key is replaced only by
\* a fresh pending entry, only by a call whose dependency list differs
\* from the stored one, and only when the stored entry is terminal.
C15_EntryStateMachine ==
    /\ [][\A c \in Entries :
            /\ Terminal(entryStatus[c]) =>
                  entryStatus'[c] \in {entryStatus[c], "none"}
            /\ (entryStatus[c] = "pending" /\ InCache(c)) =>
                  entryStatus'[c] \in {"pending", "success", "error"}]_vars
    /\ [][\A k \in CacheKeys :
            (asyncMemoCache[k] # NoEntry /\ asyncMemoCache'[k] # asyncMemoCache[k])
               => /\ asyncMemoCache'[k] # NoEntry
                  /\ entryStatus'[asyncMemoCache'[k]] = "pending"
                  /\ ~sameDeps(entryDeps[asyncMemoCache[k]], lookup'.deps)
                  /\ Terminal(entryStatus[asyncMemoCache[k]])]_vars

\* The call of the hook made in this step has the same cache key and a
\* same-value equal dependency list as the call before it, which raised
\* the error of a failed computation.
RepeatsFailedLookup ==
    /\ lookup.outcome = "threwError"
    /\ lookup'.factory # "none"
    /\ getCacheKey(lookup'.factory, lookup'.deps, lookup'.scope)
          = getCacheKey(lookup.factory, lookup.deps, lookup.scope)
    /\ sameDeps(lookup'.deps, lookup.deps)

\* C16: after a call of the hook raised the error of a failed computation,
\* a call with the same key and an unchanged dependency list raises the
\* same captured error again and does not call the factory.
C16_FailureWithoutRetry ==
    [][RepeatsFailedLookup =>
          /\ ~FactoryInvoked
          /\ lookup'.outcome = "threwError"
          /\ lookup'.entry = lookup.entry]_vars

\* The call of the hook made in this step, in the browser, has the factory
\* and the scope of the call before it.
SameFactoryAndScope ==
    /\ isClient
    /\ lookup.outcome # "none"
    /\ lookup'.factory = lookup.factory
    /\ lookup'.scope = lookup.scope

\* C22: a call whose dependency is -0 after a call whose dependency was 0
\* calls the factory again and gets a new entry; a call whose dependency is
\* NaN after a call with NaN reuses the entry and does not call the
\* factory.
C22_SameValueComparison ==
    [][SameFactoryAndScope =>
          /\ (lookup.deps = <<"0">> /\ lookup'.deps = <<"-0">>) =>
                /\ FactoryInvoked
                /\ lookup'.invoked
                /\ lookup'.entry = NoEntry \/ lookup'.entry # lookup.entry
          /\ (lookup.deps = <<"NaN">> /\ lookup'.deps = <<"NaN">>) =>
                /\ ~FactoryInvoked
                /\ lookup'.entry = lookup.entry]_vars

\* The cache key of the last call of the hook.
LookupKey(l) == getCacheKey(l.factory, l.deps, l.scope)

\* The step is a call of the hook that throws a promise.
RaisesPending == lookup' # lookup /\ lookup'.outcome = "threwPromise"

\* C23 as stated: the promise a call of the hook throws has not settled.
C23_RaisedPromiseUnsettled ==
    [][RaisesPending => promise'[lookup'.entry] = "pending"]_vars

\* C23 as amended: the promise a call of the hook throws is the promise of
\* the entry stored under the call's key, and that entry's status is
\* pending; the promise itself may already have settled.
C23_RaisedPromiseIsEntrys ==
    [][RaisesPending =>
          /\ lookup'.entry # NoEntry
          /\ asyncMemoCache'[LookupKey(lookup')] = lookup'.entry
          /\ entryStatus'[lookup'.entry] = "pending"
          /\ promise'[lookup'.entry] \in {"pending", "fulfilled", "rejected"}]_vars

C23_Witness ==
    /\ lookup.outcome = "threwPromise"
    /\ ~lookup.invoked
    /\ entryStatus[lookup.entry] = "pending"
    /\ promise[lookup.entry] = "fulfilled"

\* C24: every call of the hook that starts a computation, whatever the
\* factory does (returns a promise, returns a value, throws), has stored an
\* entry under its cache key when it returns or throws.
C24_EntryStoredForEveryOutcome ==
    [][FactoryInvoked =>
          /\ lookup'.entry # NoEntry
          /\ asyncMemoCache'[LookupKey(lookup')] = lookup'.entry
          /\ entryStatus'[lookup'.entry] = "pending"]_vars

\* The step is a call of the hook that starts a computation whose factory
\* returns a value that is not a promise: Promise.resolve(value) is
\* fulfilled from the start.
StartsSyncValue ==
    /\ FactoryInvoked
    /\ lookup'.entry # NoEntry
    /\ promise'[lookup'.entry] = "fulfilled"

\* The step is a call of the hook that finds, under its key and with the
\* same dependency list, entry c with status success.
FindsSuccess(c) ==
    /\ lookup' # lookup
    /\ isClient
    /\ c # NoEntry
    /\ asyncMemoCache[LookupKey(lookup')] = c
    /\ sameDeps(entryDeps[c], lookup'.deps)
    /\ entryStatus[c] = "success"

AllInvocationsSucceeded ==
    /\ nInvocations >= 1
    /\ \A i \in 1..nInvocations : factoryState[i] = "succeeded"

\* C26: on a mounted instance that was not torn down and activated again,
\* once every invocation started by the mount and the dependency changes
\* has resolved successfully (nothing is left to settle), the displayed
\* value is the result of the most recently started invocation.
C26_LatestResultShown ==
    (/\ memoPhase = "mounted"
     /\ ~reactivated
     /\ AllInvocationsSucceeded)
       => value = nInvocations

\* Invocation i fails in this step (the catch branch of executeFactory
\* runs for it).
InvocationFails(i) == factoryState[i] # "failed" /\ factoryState'[i] = "failed"

\* C27: the failure of an invocation that settles after a later invocation
\* was started (i < nInvocations before the step) is not reported with console.error and leaves the displayed
\* value alone; a failure is reported only for the most recently started
\* invocation of a mounted instance, and a report once made stays one.
C27_SupersededFailureDropped ==
    [][\A i \in Invocations :
          /\ (InvocationFails(i) /\ i < nInvocations) =>
                /\ memoErrorLogged'[i] = memoErrorLogged[i]
                /\ value' = value
          /\ (~memoErrorLogged[i] /\ memoErrorLogged'[i]) =>
                /\ InvocationFails(i)
                /\ i >= nInvocations
                /\ memoPhase' = "mounted"
          /\ memoErrorLogged[i] => memoErrorLogged'[i]]_vars

\* =====================================================================
\*               Further properties of useAsyncEffekt
\* =====================================================================

\* The first then-callback of the teardown of run i runs in this step, for
\* an effect that resolved with a value that is not a function.
TeardownOfNonCallable(i) ==
    /\ tdStage[i] = "waiting"
    /\ tdStage'[i] # "waiting"
    /\ result[i] \in {"undefined", "obj"}

\* C28: the teardown of a run whose effect resolved with a value that is
\* not a function (undefined, or a truthy value such as an object) calls
\* nothing, reports no cleanup error, and goes on to the callback that
\* resolves the cleanup promise.
C28_NonCallableIgnored ==
    [][\A i \in Runs :
          TeardownOfNonCallable(i) =>
             /\ cleanupCalls'[i] = cleanupCalls[i]
             /\ cleanupErrorLogged'[i] = cleanupErrorLogged[i]
             /\ cleanupState'[i] = "notInvoked"
             /\ tdStage'[i] = "afterCleanup"]_vars

\* The useEffect callback of run i runs in this step.
RunStarts(i) == pc[i] = "idle" /\ pc'[i] # "idle"

\* C29: a run whose effect does not call waitForPrevious() is in flight (or
\* has thrown) as soon as its useEffect callback has run, whatever the
\* state of the run before it; only a run that awaits waitForPrevious() is
\* ever held back, and it is released only once the chain it captured has
\* settled.
C29_OnlyWaitersAreDelayed ==
    /\ [](\A i \in Runs : pc[i] = "awaitPrev" => plan[i] # "plain")
    /\ [][\A i \in Runs :
             /\ (RunStarts(i) /\ plan'[i] = "plain") => pc'[i] \in {"inflight", "done"}
             /\ (RunStarts(i) /\ plan'[i] # "plain") => pc'[i] = "awaitPrev"
             /\ (pc[i] = "awaitPrev" /\ pc'[i] # "awaitPrev") =>
                   ChainState(previousEffectChain[i]) # "pending"]_vars

\* Run 2 has started and is in flight while the effect of run 1 is still in
\* flight and the cleanup of run 1 has not been called.
C29_Witness ==
    /\ nRuns = 2
    /\ pc[1] = "inflight"
    /\ plan[2] = "plain"
    /\ pc[2] = "inflight"
    /\ torn[1]
    /\ tdStage[1] = "waiting"
    /\ cleanupCalls[1] = 0

\* C30: the chain the first run captures is the Promise.resolve() the ref
\* was created with, which is resolved: while the first run awaits
\* waitForPrevious() the promise it awaits is resolved, whatever teardowns
\* and other runs have done, and the await ends with the effect going on,
\* never with a failure.
C30_FirstRunNeverBlocked ==
    /\ [](pc[1] = "awaitPrev" =>
             /\ previousEffectChain[1] = 0
             /\ ChainState(previousEffectChain[1]) = "resolved")
    /\ [][(pc[1] = "awaitPrev" /\ pc'[1] # "awaitPrev") => pc'[1] = "inflight"]_vars

\* The first run awaited waitForPrevious() and went on, with no teardown
\* and no other run.
C30_Witness ==
    /\ nRuns = 1
    /\ plan[1] = "wait"
    /\ pc[1] = "inflight"
    /\ ~torn[1]

\* An isMounted that answers with the value the ref had when the effect
\* was started.
isMounted_Stale == TRUE

\* The capability passed to the effect: isMounted: () => isMountedRef.current.
isMounted == isMountedRef

\* The signal the effect of run i awaits fires in this step: the effect
\* goes on and its promise settles.
SignalFires(i) == pc[i] = "inflight" /\ pc'[i] = "done"

\* The effect of run i, resumed in this step, does what it does only
\* `if (isMounted())`.
AppliesMutation(i) == SignalFires(i) /\ isMounted

\* C31: an effect that is resumed by its signal after the instance was
\* unmounted does not do what it guards with isMounted(), whatever else
\* happened before and in whatever order.
C31_LivenessGating ==
    [][\A i \in Runs :
          (SignalFires(i) /\ phase = "unmounted") => ~AppliesMutation(i)]_vars

\* The effect of the last run was resumed after the unmount (its failure
\* was caught but, the instance being unmounted, not reported) and its
\* teardown has not started the cleanup step yet.
C31_Witness ==
    /\ phase = "unmounted"
    /\ nRuns = 1
    /\ plan[1] = "plain"
    /\ pc[1] = "done"
    /\ result[1] = "reject"
    /\ ~effectErrorLogged[1]
    /\ tdStage[1] = "waiting"

\* =====================================================================
\*             Further properties of useAsyncMemoSuspense
\* =====================================================================

\* The cache keys that have an entry in the Map.
KeysPresent == {k \in CacheKeys : asyncMemoCache[k] # NoEntry}

\* C32: a key that is in the Map stays in it and the entry under it is a
\* live entry object; the entry under a key changes only in a call of the
\* hook that computes that very key and calls the factory, and the entry
\* stored then is the fresh pending entry of that call.
C32_NeverEvicts ==
    /\ [](\A k \in KeysPresent : entryStatus[asyncMemoCache[k]] # "none")
    /\ [][KeysPresent \subseteq KeysPresent']_vars
    /\ [][\A k \in CacheKeys :
             asyncMemoCache'[k] # asyncMemoCache[k] =>
                /\ FactoryInvoked
                /\ LookupKey(lookup') = k
                /\ asyncMemoCache'[k] = lookup'.entry
                /\ lookup'.entry = factoryCalls'
                /\ entryKey'[lookup'.entry] = k
                /\ entryStatus'[lookup'.entry] = "pending"]_vars

\* The entry under a key was replaced by a fresh one, which has got its
\* result since, while the entry stored first is still pending; the key is
\* still in the Map.
C32_Witness ==
    \E k \in CacheKeys :
        /\ asyncMemoCache[k] = 2
        /\ entryKey[1] = k
        /\ entryStatus[1] = "pending"
        /\ entryStatus[2] \in {"success", "error"}

\* The continuation registered on the promise of entry c runs in this
\* step.
ContinuationRuns(c) == entryStatus[c] = "pending" /\ entryStatus'[c] # "pending"

\* The step is a call of the hook, in the browser, with the key and a
\* same-value equal dependency list of the computation of entry c, which
\* has got its result.
LooksUpSettled(c) ==
    /\ lookup' # lookup
    /\ isClient
    /\ Terminal(entryStatus[c])
    /\ entryKey[c] = LookupKey(lookup')
    /\ sameDeps(entryDeps[c], lookup'.deps)

\* C33: the continuation of every computation that was started, whatever
\* became of the consumer whose call started it, leaves the entry stored
\* under the key of the computation with status success or error, and a
\* later call with that key and dependency list, by any consumer, gets that
\* result without calling the factory.
C33_NoLivenessGating ==
    [][\A c \in Entries :
          /\ ContinuationRuns(c) =>
                /\ Terminal(entryStatus'[c])
                /\ asyncMemoCache'[entryKey[c]] = c
          /\ LooksUpSettled(c) =>
                /\ ~FactoryInvoked
                /\ lookup'.entry = c
                /\ lookup'.outcome \in {"returned", "threwError"}]_vars

\* =====================================================================
\*        Properties of useAsyncMemo: synchronous factories, state
\* =====================================================================

\* Invocation i is started in this step by a factory that returns a value
\* that is not a promise.
StartsSyncInvocation(i) ==
    /\ factoryState[i] = "idle"
    /\ factoryState'[i] = "pending"
    /\ factoryKind'[i] = "value"

\* executeFactory resumes in this step after `await factory(...)` for an
\* invocation whose factory returned a value that is not a promise.
SyncInvocationSettles(i) ==
    /\ factoryKind[i] = "value"
    /\ factoryState[i] = "pending"
    /\ factoryState'[i] # "pending"

\* C34: the activation that starts an invocation whose factory returns a
\* value that is not a promise leaves the displayed and the retained value
\* as they were; the value is applied in a later step, the one in which
\* the await ends, and only if isMountedRef.current is true then.
C34_SyncFactorySettlePath ==
    [][\A i \in Invocations :
          /\ StartsSyncInvocation(i) =>
                /\ value' = value
                /\ lastSuccessfulValueRef' = lastSuccessfulValueRef
          /\ SyncInvocationSettles(i) =>
                /\ factoryState'[i] = "succeeded"
                /\ IF memoIsMountedRef
                   THEN value' = i /\ lastSuccessfulValueRef' = i
                   ELSE value' = value /\ lastSuccessfulValueRef' = lastSuccessfulValueRef
                /\ UNCHANGED memoErrorLogged]_vars

\* The second invocation, of a factory that returns a plain value, has been
\* started and the hook still returns the result of the first.
C34_Witness ==
    /\ memoPhase = "mounted"
    /\ ~reactivated
    /\ nInvocations = 2
    /\ factoryKind[2] = "value"
    /\ factoryState[2] = "pending"
    /\ value = 1

\* C35: the displayed value and lastSuccessfulValueRef.current are equal
\* in every reachable state: both undefined at first, both set by a
\* success, the displayed value set to the retained one by a failure, and
\* neither touched by the start of an invocation or by the unmount.
C35_ValueEqualsLastSuccessful ==
    value = lastSuccessfulValueRef

\* After a success, the start of a further invocation, its failure and the
\* unmount, both still hold the result of the first invocation.
C35_Witness ==
    /\ memoPhase = "unmounted"
    /\ nInvocations = 2
    /\ factoryState[1] = "succeeded"
    /\ factoryState[2] = "failed"
    /\ memoErrorLogged[2]
    /\ value = 1
    /\ lastSuccessfulValueRef = 1

\* =====================================================================
\*          Properties of useAsyncEffekt: isMounted in a cleanup
\* =====================================================================

\* The teardown of run i calls the cleanup function in this step.
CleanupInvoked(i) == cleanupCalls'[i] = cleanupCalls[i] + 1

\* The cleanup function of run i has been called and has not returned, or
\* the promise it returned has not settled.
InsideCleanup(i) == cleanupState[i] = "running"

\* C36: a cleanup that is called because the instance was unmounted sees
\* isMounted() false when it is called and for as long as it runs; a
\* cleanup sees isMounted() true only if it belongs to a run torn down by a
\* dependency change and the instance is still mounted, and then it does.
C36_IsMountedInsideCleanup ==
    /\ [][\A i \in Runs :
             CleanupInvoked(i) =>
                /\ TornByUnmount(i) => ~isMounted
                /\ isMounted <=> (phase = "mounted" /\ i < nRuns)]_vars
    /\ [](\A i \in Runs :
             InsideCleanup(i) =>
                /\ TornByUnmount(i) => ~isMounted
                /\ isMounted <=> (phase = "mounted" /\ i < nRuns))

\* The asynchronous cleanup of the last run, called because of the unmount,
\* is running, and so is the one of the run before it, whose teardown was
\* called by a dependency change.
C36_Witness ==
    /\ nRuns = 2
    /\ TornByUnmount(2)
    /\ cleanupCalls[2] = 1
    /\ InsideCleanup(2)
    /\ InsideCleanup(1)
    /\ ~isMounted

\* Entry c was stored under its key and another entry has taken its place.
Superseded(c) == entryStatus[c] # "none" /\ asyncMemoCache[entryKey[c]] # c

\* The promise of computation c settles, or its continuation runs, in this
\* step.
SettlementStep(c) == promise'[c] # promise[c] \/ entryStatus'[c] # entryStatus[c]

\* C37: when the promise of a superseded computation settles and when its
\* continuation runs, every entry that is stored under a key keeps its
\* place, its status (and with it its result or error), its promise and its
\* dependency list.
C37_SupersededSettlementIsolated ==
    [][\A c \in Entries :
          (Superseded(c) /\ SettlementStep(c)) =>
             \A k \in KeysPresent :
                LET e == asyncMemoCache[k]
                IN  /\ asyncMemoCache'[k] = e
                    /\ entryStatus'[e] = entryStatus[e]
                    /\ promise'[e] = promise[e]
                    /\ entryDeps'[e] = entryDeps[e]]_vars

\* The first computation, superseded under its key by the second, has
\* failed, and the entry of the second computation has status success.
C37_Witness ==
    /\ Superseded(1)
    /\ promise[1] = "rejected"
    /\ asyncMemoCache[entryKey[1]] = 2
    /\ entryStatus[2] = "success"

\* The step is a call of the hook, in the browser, that follows a call with
\* the same factory and scope but another cache key, and finds under its
\* own key entry c of an earlier call with a same-value equal dependency
\* list, with status success.
ReturnsToEarlierDeps(c) ==
    /\ SameFactoryAndScope
    /\ LookupKey(lookup') # LookupKey(lookup)
    /\ c # NoEntry
    /\ asyncMemoCache[LookupKey(lookup')] = c
    /\ sameDeps(entryDeps[c], lookup'.deps)
    /\ entryStatus[c] = "success"

\* C38: a call of the hook leaves the entries under all other keys as
\* they are, and a call with dependency list A that follows a call with
\* list B (same factory and scope, another key) and finds the entry an
\* earlier call with A stored, with status success, returns the value of
\* that entry and does not call the factory.
C38_EarlierDepsKept ==
    /\ [][lookup' # lookup =>
             \A k \in CacheKeys \ {LookupKey(lookup')} :
                /\ asyncMemoCache'[k] = asyncMemoCache[k]
                /\ asyncMemoCache[k] # NoEntry =>
                      /\ entryStatus'[asyncMemoCache[k]] = entryStatus[asyncMemoCache[k]]
                      /\ entryDeps'[asyncMemoCache[k]] = entryDeps[asyncMemoCache[k]]]_vars
    /\ [][\A c \in Entries :
             ReturnsToEarlierDeps(c) =>
                /\ ~FactoryInvoked
                /\ lookup'.outcome = "returned"
                /\ lookup'.entry = c]_vars

\* Calls with A, then with B under another key, then with A again: the
\* last call returned the value of the entry the first call stored, and
\* the factory was called twice in all.
C38_Witness ==
    /\ lookup.outcome = "returned"
    /\ ~lookup.invoked
    /\ lookup.entry = 1
    /\ factoryCalls = 2
    /\ \E k \in CacheKeys :
         /\ k # LookupKey(lookup)
         /\ k[1] = LookupKey(lookup)[1]
         /\ k[3] = LookupKey(lookup)[3]
         /\ asyncMemoCache[k] = 2

\* A call of the hook starts a computation in this step.
ComputationStarts ==
    \E e \in Entries : entryStatus[e] = "none" /\ entryStatus'[e] = "pending"

\* C39: of two components that call the hook with the same factory text
\* and scope and dependency lists that differ under the same-value
\* comparison, each gets a value or an error in the end, and from some
\* point on no call of the hook starts a computation.
C39_EveryConsumerServed ==
    /\ <>(\A i \in Consumers : consumer[i] = Done)
    /\ <>[][~ComputationStarts]_vars

====
